---- MODULE Spec2Model ----
(***************************************************************************)
(* Model of src/allocation.h: the Allocation interface and its two         *)
(* variants, MMAPAllocation (open + fstat + mmap) and FileCopyAllocation   *)
(* (fopen + fstat + new[] + fread), together with the part of the          *)
(* operating system they act on: the descriptor table, the mappings and    *)
(* the heap.  Every system call is one step; its outcome is chosen by the  *)
(* environment.                                                            *)
(***************************************************************************)
EXTENDS Integers, Sequences, FiniteSets, TLC

(* ---- bounds ---- *)
NObj == 2                      \* allocation objects the caller constructs
MaxLen == 2                    \* largest file length, in bytes

(* ---- program constants ---- *)
MAP_FAILED == -1               \* (void*)-1, the "not mapped" value
NoFd == -1                     \* int mmap_fd_ = -1
NULL == 0                      \* nullptr

Objs == 1..NObj
Byte == {0, 1}
StdFds == {0, 1, 2}            \* stdin, stdout, stderr are always open
Missing == "missing.bin"       \* a path that names no file
Model == "model.bin"           \* a path that names the file `content`
Paths == {Missing, Model}
Unread == "?"                  \* a buffer byte never written / a page past EOF

RECURSIVE SeqsUpTo(_)
SeqsUpTo(n) ==
  IF n = 0 THEN {<<>>}
  ELSE LET S == SeqsUpTo(n - 1)
       IN S \cup {Append(s, b) : s \in {t \in S : Len(t) = n - 1}, b \in Byte}

FileContents == SeqsUpTo(MaxLen)
\* what an uninitialised struct stat may hold in st_size
GarbageSizes == 0..(MaxLen + 1)

VARIABLES
  content,   \* bytes of the file at path Model
  obj,       \* per object: position in its life, members and constructor locals
  fds,       \* open descriptors: records [fd, owner]
  maps,      \* live mappings: records [addr, len, owner]
  heap,      \* live heap buffers: records [addr, data, owner]
  last       \* the value the most recent accessor call returned

vars == <<content, obj, fds, maps, heap, last>>

(* ---- messages passed to ErrorReporter::Report ---- *)
MsgOpen == "Could not open '%s'."
MsgMmap == "Mmap of '%s' failed."
MsgSize == "Failed to get file size of '%s'."
MsgMalloc == "Malloc of buffer to hold copy of '%s' failed."
MsgRead == "Read of '%s' failed (too few bytes read)."

Report(fmt, filename) == [fmt |-> fmt, arg |-> filename]
\* n: the byte count the call produced, for the calls that produce one
Call(name, ok, n) == [call |-> name, ok |-> ok, n |-> n]

\* variant: buffer_size_bytes_ has no default member initialiser
Unbuilt_nosize ==
  [kind |-> "none", filename |-> Missing, pc |-> "idle",
   mmap_fd_ |-> NoFd, mmapped_buffer_ |-> MAP_FAILED, buffer_size_bytes_ |-> 1,
   copied_buffer_ |-> NULL,
   file |-> NULL, buffer |-> NULL,
   calls |-> <<>>, reports |-> <<>>,
   frees |-> 0]                 \* history: delete[] executions on its buffer

(* ---- the object before its constructor runs ---- *)
Unbuilt ==
  [kind |-> "none", filename |-> Missing, pc |-> "idle",
   mmap_fd_ |-> NoFd, mmapped_buffer_ |-> MAP_FAILED, buffer_size_bytes_ |-> 0,
   copied_buffer_ |-> NULL,
   file |-> NULL, buffer |-> NULL,
   calls |-> <<>>, reports |-> <<>>,
   frees |-> 0]                 \* history: delete[] executions on its buffer

(* ---- operating system helpers ---- *)
UsedFds == StdFds \cup {d.fd : d \in fds}
\* open() returns the lowest descriptor not in use
LowestFreeFd ==
  CHOOSE n \in 0..(Cardinality(UsedFds)) :
    n \notin UsedFds /\ \A m \in 0..(n - 1) : m \in UsedFds
UsedAddrs == {m.addr : m \in maps} \cup {h.addr : h \in heap}
\* mmap() and operator new[] return an address nothing else occupies
FreshAddr ==
  CHOOSE a \in 1..(Cardinality(UsedAddrs) + 1) :
    a \notin UsedAddrs /\ \A b \in 1..(a - 1) : b \in UsedAddrs
FileExists(path) == path = Model
\* open of a missing path fails; open of an existing one may still fail
OpenOutcomes(path) == IF FileExists(path) THEN {TRUE, FALSE} ELSE {FALSE}
\* a mapping of len bytes over the file: file bytes, then pages past EOF
MappedBytes(len) == [i \in 1..len |-> IF i <= Len(content) THEN content[i] ELSE Unread]
\* a buffer of n bytes of which the first k were read from the file
ReadInto(n, k) == [i \in 1..n |-> IF i <= k /\ i <= Len(content) THEN content[i] ELSE Unread]

(* ---- accessors ---- *)
MMAP_base(s) == s.mmapped_buffer_
MMAP_bytes(s) == s.buffer_size_bytes_
\* variant: validity judged by the descriptor instead of the mapping
MMAP_valid_by_fd(s) == s.mmap_fd_ # NoFd
MMAP_valid(s) == s.mmapped_buffer_ # MAP_FAILED
FileCopy_base(s) == s.copied_buffer_
FileCopy_bytes(s) == s.buffer_size_bytes_
\* variant: an empty buffer counted as no buffer
FileCopy_valid_nonempty(s) == s.copied_buffer_ # NULL /\ s.buffer_size_bytes_ # 0
FileCopy_valid(s) == s.copied_buffer_ # NULL

base(s) == IF s.kind = "MMAPAllocation" THEN MMAP_base(s) ELSE FileCopy_base(s)
bytes(s) == IF s.kind = "MMAPAllocation" THEN MMAP_bytes(s) ELSE FileCopy_bytes(s)
valid(s) == IF s.kind = "MMAPAllocation" THEN MMAP_valid(s) ELSE FileCopy_valid(s)

Init ==
  /\ content \in FileContents
  /\ obj = [o \in Objs |-> Unbuilt]
  /\ fds = {}
  /\ maps = {}
  /\ heap = {}
  /\ last = [obj |-> 0, op |-> "none", val |-> 0]

\* construction is a synchronous call of the owning thread: it constructs
\* objects one after the other, in id order, each constructor running to its
\* end before the next call
InConstructor(s) == s.pc \in {"fstat", "mmap", "new", "fread"}
CanConstruct(o) ==
  /\ obj[o].pc = "idle"
  /\ \A p \in Objs : p < o => obj[p].pc # "idle"
  /\ \A p \in Objs : ~InConstructor(obj[p])

(* ---- MMAPAllocation::MMAPAllocation ---- *)
\* variant: the `return` after the open report is missing
MMAPAllocation_open_fallthrough(o, filename) ==
  /\ CanConstruct(o)
  /\ \E ok \in OpenOutcomes(filename) :
       LET fd == IF ok THEN LowestFreeFd ELSE NoFd
           s0 == [Unbuilt EXCEPT !.kind = "MMAPAllocation", !.filename = filename,
                                 !.mmapped_buffer_ = MAP_FAILED,
                                 !.mmap_fd_ = fd,
                                 !.calls = <<Call("open", ok, 0)>>]
       IN /\ fds' = IF ok THEN fds \cup {[fd |-> fd, owner |-> o]} ELSE fds
          /\ obj' = [obj EXCEPT ![o] =
                       IF s0.mmap_fd_ = -1
                       THEN [s0 EXCEPT !.reports = Append(@, Report(MsgOpen, filename)),
                                       !.pc = "fstat"]
                       ELSE [s0 EXCEPT !.pc = "fstat"]]
  /\ UNCHANGED <<content, maps, heap, last>>

MMAPAllocation_open(o, filename) ==
  /\ CanConstruct(o)
  /\ \E ok \in OpenOutcomes(filename) :
       LET fd == IF ok THEN LowestFreeFd ELSE NoFd
           s0 == [Unbuilt EXCEPT !.kind = "MMAPAllocation", !.filename = filename,
                                 !.mmapped_buffer_ = MAP_FAILED,
                                 !.mmap_fd_ = fd,
                                 !.calls = <<Call("open", ok, 0)>>]
       IN /\ fds' = IF ok THEN fds \cup {[fd |-> fd, owner |-> o]} ELSE fds
          /\ obj' = [obj EXCEPT ![o] =
                       IF s0.mmap_fd_ = -1
                       THEN [s0 EXCEPT !.reports = Append(@, Report(MsgOpen, filename)),
                                       !.pc = "done"]
                       ELSE [s0 EXCEPT !.pc = "fstat"]]
  /\ UNCHANGED <<content, maps, heap, last>>

MMAPAllocation_fstat(o) ==
  /\ obj[o].kind = "MMAPAllocation"
  /\ obj[o].pc = "fstat"
  /\ \E ok \in BOOLEAN :
       \E st_size \in (IF ok THEN {Len(content)} ELSE GarbageSizes) :
         obj' = [obj EXCEPT ![o].calls = Append(@, Call("fstat", ok, st_size)),
                            ![o].buffer_size_bytes_ = st_size,
                            ![o].pc = "mmap"]
  /\ UNCHANGED <<content, fds, maps, heap, last>>

\* mmap of length 0 fails with EINVAL; any other request may fail or succeed
MmapOutcomes(len) == IF len = 0 THEN {FALSE} ELSE {TRUE, FALSE}

\* variant: the descriptor is closed when mmap fails
MMAPAllocation_mmap_closing(o) ==
  /\ obj[o].kind = "MMAPAllocation"
  /\ obj[o].pc = "mmap"
  /\ \E ok \in MmapOutcomes(obj[o].buffer_size_bytes_) :
       LET addr == IF ok THEN FreshAddr ELSE MAP_FAILED
           s1 == [obj[o] EXCEPT !.mmapped_buffer_ = addr,
                                !.calls = Append(@, Call("mmap", ok, 0))]
       IN /\ maps' = IF ok
                     THEN maps \cup {[addr |-> addr, len |-> obj[o].buffer_size_bytes_,
                                      owner |-> o]}
                     ELSE maps
          /\ fds' = IF ok THEN fds ELSE {d \in fds : d.fd # s1.mmap_fd_}
          /\ obj' = [obj EXCEPT ![o] =
                       IF s1.mmapped_buffer_ = MAP_FAILED
                       THEN [s1 EXCEPT !.reports = Append(@, Report(MsgMmap, s1.filename)),
                                       !.mmap_fd_ = NoFd,
                                       !.pc = "done"]
                       ELSE [s1 EXCEPT !.pc = "done"]]
  /\ UNCHANGED <<content, heap, last>>

MMAPAllocation_mmap(o) ==
  /\ obj[o].kind = "MMAPAllocation"
  /\ obj[o].pc = "mmap"
  /\ \E ok \in MmapOutcomes(obj[o].buffer_size_bytes_) :
       LET addr == IF ok THEN FreshAddr ELSE MAP_FAILED
           s1 == [obj[o] EXCEPT !.mmapped_buffer_ = addr,
                                !.calls = Append(@, Call("mmap", ok, 0))]
       IN /\ maps' = IF ok
                     THEN maps \cup {[addr |-> addr, len |-> obj[o].buffer_size_bytes_,
                                      owner |-> o]}
                     ELSE maps
          /\ obj' = [obj EXCEPT ![o] =
                       IF s1.mmapped_buffer_ = MAP_FAILED
                       THEN [s1 EXCEPT !.reports = Append(@, Report(MsgMmap, s1.filename)),
                                       !.pc = "done"]
                       ELSE [s1 EXCEPT !.pc = "done"]]
  /\ UNCHANGED <<content, fds, heap, last>>

(* ---- FileCopyAllocation::FileCopyAllocation ---- *)
\* leaving the constructor's scope: ~unique_ptr<char[]> frees the local
\* buffer if it still owns one, then ~unique_ptr<FILE> calls fclose
ScopeExitHeap(hp, s) == {h \in hp : ~(s.buffer # NULL /\ h.addr = s.buffer)}
\* variant: the FILE handle is a raw pointer, never closed
ScopeExitFds_leak(o, s) == fds
ScopeExitFds(o, s) == {d \in fds : ~(s.file # NULL /\ d.fd = s.file)}
ScopeExitObj(s, pc) ==
  [s EXCEPT !.file = NULL, !.buffer = NULL, !.pc = pc,
            !.frees = IF s.buffer # NULL THEN @ + 1 ELSE @]

FileCopyAllocation_fopen(o, filename) ==
  /\ CanConstruct(o)
  /\ \E ok \in OpenOutcomes(filename) :
       LET fd == IF ok THEN LowestFreeFd ELSE NULL
           s0 == [Unbuilt EXCEPT !.kind = "FileCopyAllocation", !.filename = filename,
                                 !.file = fd,
                                 !.calls = <<Call("fopen", ok, 0)>>]
       IN /\ fds' = IF ok THEN fds \cup {[fd |-> fd, owner |-> o]} ELSE fds
          /\ obj' = [obj EXCEPT ![o] =
                       IF s0.file = NULL
                       THEN ScopeExitObj([s0 EXCEPT !.reports =
                                            Append(@, Report(MsgOpen, filename))], "done")
                       ELSE [s0 EXCEPT !.pc = "fstat"]]
  /\ UNCHANGED <<content, maps, heap, last>>

FileCopyAllocation_fstat(o) ==
  /\ obj[o].kind = "FileCopyAllocation"
  /\ obj[o].pc = "fstat"
  /\ \E ok \in BOOLEAN :
       LET s1 == [obj[o] EXCEPT !.calls =
                     Append(@, Call("fstat", ok, IF ok THEN Len(content) ELSE 0))]
       IN IF ~ok
          THEN /\ obj' = [obj EXCEPT ![o] =
                            ScopeExitObj([s1 EXCEPT !.reports =
                                            Append(@, Report(MsgSize, s1.filename))], "done")]
               /\ fds' = ScopeExitFds(o, s1)
          ELSE /\ obj' = [obj EXCEPT ![o] =
                            [s1 EXCEPT !.buffer_size_bytes_ = Len(content), !.pc = "new"]]
               /\ fds' = fds
  /\ UNCHANGED <<content, maps, heap, last>>

\* new char[n]: a fresh, non-null, uninitialised array (also for n = 0),
\* or std::bad_alloc thrown
FileCopyAllocation_new(o) ==
  /\ obj[o].kind = "FileCopyAllocation"
  /\ obj[o].pc = "new"
  /\ \E ok \in BOOLEAN :
       LET s1 == [obj[o] EXCEPT !.calls = Append(@, Call("new", ok, 0))]
       IN IF ~ok
          THEN \* the exception unwinds the constructor: `file` is closed,
               \* no object comes into existence
               /\ obj' = [obj EXCEPT ![o] = ScopeExitObj(s1, "thrown")]
               /\ fds' = ScopeExitFds(o, s1)
               /\ heap' = heap
          ELSE LET s2 == [s1 EXCEPT !.buffer = FreshAddr]
               IN /\ heap' = heap \cup {[addr |-> s2.buffer,
                                         data |-> ReadInto(s1.buffer_size_bytes_, 0),
                                         owner |-> o]}
                  /\ IF s2.buffer = NULL
                     THEN /\ obj' = [obj EXCEPT ![o] =
                                       ScopeExitObj([s2 EXCEPT !.reports =
                                          Append(@, Report(MsgMalloc, s2.filename))], "done")]
                          /\ fds' = ScopeExitFds(o, s2)
                     ELSE /\ obj' = [obj EXCEPT ![o] = [s2 EXCEPT !.pc = "fread"]]
                          /\ fds' = fds
  /\ UNCHANGED <<content, maps, last>>

\* fread returns the number of bytes read: at most the number requested and
\* at most what the file holds
FreadOutcomes(n) == {k \in 0..n : k <= Len(content)}

\* variant: the buffer is committed with get() instead of release(), so the
\* constructor's local owner still frees it on scope exit
FileCopyAllocation_fread_get(o) ==
  /\ obj[o].kind = "FileCopyAllocation"
  /\ obj[o].pc = "fread"
  /\ \E bytes_read \in FreadOutcomes(obj[o].buffer_size_bytes_) :
       LET s  == obj[o]
           s1 == [s EXCEPT !.calls =
                     Append(@, Call("fread", bytes_read = s.buffer_size_bytes_, bytes_read))]
           filled == {IF h.addr = s.buffer
                      THEN [h EXCEPT !.data = ReadInto(s.buffer_size_bytes_, bytes_read)]
                      ELSE h : h \in heap}
       IN IF bytes_read # s.buffer_size_bytes_
          THEN /\ obj' = [obj EXCEPT ![o] =
                            ScopeExitObj([s1 EXCEPT !.reports =
                                            Append(@, Report(MsgRead, s1.filename))], "done")]
               /\ heap' = ScopeExitHeap(filled, s1)
               /\ fds' = ScopeExitFds(o, s1)
          ELSE /\ obj' = [obj EXCEPT ![o] =
                            ScopeExitObj([s1 EXCEPT !.copied_buffer_ = s1.buffer], "done")]
               /\ heap' = ScopeExitHeap(filled, s1)
               /\ fds' = ScopeExitFds(o, s1)
  /\ UNCHANGED <<content, maps, last>>

\* variant: the bytes_read check is missing
FileCopyAllocation_fread_unchecked(o) ==
  /\ obj[o].kind = "FileCopyAllocation"
  /\ obj[o].pc = "fread"
  /\ \E bytes_read \in FreadOutcomes(obj[o].buffer_size_bytes_) :
       LET s  == obj[o]
           s1 == [s EXCEPT !.calls =
                     Append(@, Call("fread", bytes_read = s.buffer_size_bytes_, bytes_read))]
           filled == {IF h.addr = s.buffer
                      THEN [h EXCEPT !.data = ReadInto(s.buffer_size_bytes_, bytes_read)]
                      ELSE h : h \in heap}
       IN /\ obj' = [obj EXCEPT ![o] =
                       ScopeExitObj([s1 EXCEPT !.copied_buffer_ = s1.buffer,
                                               !.buffer = NULL], "done")]
          /\ heap' = filled
          /\ fds' = ScopeExitFds(o, s1)
  /\ UNCHANGED <<content, maps, last>>

FileCopyAllocation_fread(o) ==
  /\ obj[o].kind = "FileCopyAllocation"
  /\ obj[o].pc = "fread"
  /\ \E bytes_read \in FreadOutcomes(obj[o].buffer_size_bytes_) :
       LET s  == obj[o]
           s1 == [s EXCEPT !.calls =
                     Append(@, Call("fread", bytes_read = s.buffer_size_bytes_, bytes_read))]
           filled == {IF h.addr = s.buffer
                      THEN [h EXCEPT !.data = ReadInto(s.buffer_size_bytes_, bytes_read)]
                      ELSE h : h \in heap}
       IN IF bytes_read # s.buffer_size_bytes_
          THEN /\ obj' = [obj EXCEPT ![o] =
                            ScopeExitObj([s1 EXCEPT !.reports =
                                            Append(@, Report(MsgRead, s1.filename))], "done")]
               /\ heap' = ScopeExitHeap(filled, s1)
               /\ fds' = ScopeExitFds(o, s1)
          ELSE \* copied_buffer_.reset(buffer.release())
               /\ obj' = [obj EXCEPT ![o] =
                            ScopeExitObj([s1 EXCEPT !.copied_buffer_ = s1.buffer,
                                                    !.buffer = NULL], "done")]
               /\ heap' = filled
               /\ fds' = ScopeExitFds(o, s1)
  /\ UNCHANGED <<content, maps, last>>

(* ---- destructors ---- *)
\* MMAPAllocation declares no destructor: the implicit one releases nothing
MMAPAllocation_dtor(o) ==
  /\ obj[o].kind = "MMAPAllocation"
  /\ obj[o].pc = "done"
  /\ obj' = [obj EXCEPT ![o].pc = "destroyed"]
  /\ UNCHANGED <<content, fds, maps, heap, last>>

\* ~FileCopyAllocation(){} : ~unique_ptr frees copied_buffer_ if non-null
FileCopyAllocation_dtor(o) ==
  /\ obj[o].kind = "FileCopyAllocation"
  /\ obj[o].pc = "done"
  /\ obj' = [obj EXCEPT ![o].pc = "destroyed",
                        ![o].frees = IF obj[o].copied_buffer_ # NULL THEN @ + 1 ELSE @]
  /\ heap' = {h \in heap : ~(obj[o].copied_buffer_ # NULL /\ h.addr = obj[o].copied_buffer_)}
  /\ UNCHANGED <<content, fds, maps, last>>

(* ---- accessor calls by readers of a constructed object ---- *)
base_call(o) ==
  /\ obj[o].pc = "done"
  /\ last' = [obj |-> o, op |-> "base", val |-> base(obj[o])]
  /\ UNCHANGED <<content, obj, fds, maps, heap>>

\* variant: bytes() is not const and resets the size it returns
bytes_call_clobber(o) ==
  /\ obj[o].pc = "done"
  /\ last' = [obj |-> o, op |-> "bytes", val |-> bytes(obj[o])]
  /\ obj' = [obj EXCEPT ![o].buffer_size_bytes_ = 0]
  /\ UNCHANGED <<content, fds, maps, heap>>

bytes_call(o) ==
  /\ obj[o].pc = "done"
  /\ last' = [obj |-> o, op |-> "bytes", val |-> bytes(obj[o])]
  /\ UNCHANGED <<content, obj, fds, maps, heap>>

valid_call(o) ==
  /\ obj[o].pc = "done"
  /\ last' = [obj |-> o, op |-> "valid", val |-> valid(obj[o])]
  /\ UNCHANGED <<content, obj, fds, maps, heap>>

Next ==
  \/ \E o \in Objs, f \in Paths : MMAPAllocation_open(o, f)
  \/ \E o \in Objs : MMAPAllocation_fstat(o)
  \/ \E o \in Objs : MMAPAllocation_mmap(o)
  \/ \E o \in Objs, f \in Paths : FileCopyAllocation_fopen(o, f)
  \/ \E o \in Objs : FileCopyAllocation_fstat(o)
  \/ \E o \in Objs : FileCopyAllocation_new(o)
  \/ \E o \in Objs : FileCopyAllocation_fread(o)
  \/ \E o \in Objs : MMAPAllocation_dtor(o)
  \/ \E o \in Objs : FileCopyAllocation_dtor(o)
  \/ \E o \in Objs : base_call(o)
  \/ \E o \in Objs : bytes_call(o)
  \/ \E o \in Objs : valid_call(o)

Spec == Init /\ [][Next]_vars

(* ---- vocabulary of the properties ---- *)
Returned(o) == obj[o].pc = "done"          \* constructed and not yet destroyed
Destroyed(o) == obj[o].pc = "destroyed"
IsMMAP(o) == obj[o].kind = "MMAPAllocation"
IsFileCopy(o) == obj[o].kind = "FileCopyAllocation"
Made(s, name) == \E i \in DOMAIN s.calls : s.calls[i].call = name
Failed(s, name) == \E i \in DOMAIN s.calls : s.calls[i].call = name /\ ~s.calls[i].ok
OpenFailed(s) == Failed(s, "open") \/ Failed(s, "fopen")
AnyFailed(s) == \E i \in DOMAIN s.calls : ~s.calls[i].ok
OwnedFds(o) == {d \in fds : d.owner = o}
OwnedMaps(o) == {m \in maps : m.owner = o}
OwnedHeap(o) == {h \in heap : h.owner = o}
\* the n bytes found at address addr
RegionAt(addr, n) ==
  IF \E m \in maps : m.addr = addr
  THEN LET m == CHOOSE m \in maps : m.addr = addr
       IN [i \in 1..n |-> IF i <= m.len THEN MappedBytes(m.len)[i] ELSE Unread]
  ELSE IF \E h \in heap : h.addr = addr
  THEN LET h == CHOOSE h \in heap : h.addr = addr
       IN [i \in 1..n |-> IF i <= Len(h.data) THEN h.data[i] ELSE Unread]
  ELSE <<"dangling">>
\* the bytes() bytes starting at base()
Region(o) == RegionAt(base(obj[o]), bytes(obj[o]))

(* C1: after an MMAPAllocation is destroyed, no mapping it created is still
   mapped and no descriptor it opened is still open *)
C1_NoLeakAfterDestroy ==
  \A o \in Objs :
    IsMMAP(o) /\ Destroyed(o) => OwnedFds(o) = {} /\ OwnedMaps(o) = {}

(* C2: constructing either variant over a path whose open fails ends with
   valid() false, exactly one report "Could not open '<path>'." carrying
   the path, and no further acquisition step attempted; a missing path
   always fails to open *)
C2_OpenFailure ==
  \A o \in Objs :
    Returned(o) =>
      /\ obj[o].filename = Missing => OpenFailed(obj[o])
      /\ OpenFailed(obj[o]) =>
           /\ ~valid(obj[o])
           /\ obj[o].reports = <<Report(MsgOpen, obj[o].filename)>>
           /\ Len(obj[o].calls) = 1
           /\ OwnedFds(o) = {} /\ OwnedMaps(o) = {} /\ OwnedHeap(o) = {}

C2_Witness ==
  \E o, p \in Objs :
    /\ IsMMAP(o) /\ Returned(o) /\ OpenFailed(obj[o]) /\ obj[o].filename = Missing
    /\ IsFileCopy(p) /\ Returned(p) /\ OpenFailed(obj[p]) /\ obj[p].filename = Model

(* C3: every acquisition failure of either variant, at whichever step,
   leaves the constructed object invalid and produces a report *)
C3_EveryFailureCaptured ==
  \A o \in Objs :
    Returned(o) /\ AnyFailed(obj[o]) => ~valid(obj[o]) /\ obj[o].reports # <<>>

(* C4: for every valid allocation, bytes() is the length of the file and the
   bytes() bytes starting at base() are the file's contents *)
C4_RoundTrip ==
  \A o \in Objs :
    Returned(o) /\ valid(obj[o]) =>
      bytes(obj[o]) = Len(content) /\ Region(o) = content
(* C5: a FileCopyAllocation constructed over an existing empty file, when
   open and size query succeed, is valid with bytes() = 0 and no report *)
C5_EmptyFileCopy ==
  \A o \in Objs :
    /\ IsFileCopy(o) /\ Returned(o) /\ obj[o].filename = Model /\ content = <<>>
    /\ ~Failed(obj[o], "fopen") /\ ~Failed(obj[o], "fstat")
    => /\ valid(obj[o])
       /\ bytes(obj[o]) = 0
       /\ obj[o].reports = <<>>

C5_Witness ==
  \E o \in Objs :
    /\ IsFileCopy(o) /\ Returned(o) /\ content = <<>>
    /\ Made(obj[o], "fread") /\ ~AnyFailed(obj[o])

(* C6: when fread returns fewer bytes than the determined size, the
   FileCopyAllocation is invalid, exactly one report "Read of '<path>' failed
   (too few bytes read)." is made, the buffer is freed before the constructor
   returns and base() is null *)
C6_ShortRead ==
  \A o \in Objs :
    IsFileCopy(o) /\ Returned(o) /\ Failed(obj[o], "fread") =>
      /\ ~valid(obj[o])
      /\ obj[o].reports = <<Report(MsgRead, obj[o].filename)>>
      /\ OwnedHeap(o) = {}
      /\ obj[o].copied_buffer_ = NULL
      /\ base(obj[o]) = NULL

\* a short read that did put some bytes into the buffer
C6_Witness ==
  \E o \in Objs :
    /\ IsFileCopy(o) /\ Returned(o) /\ Failed(obj[o], "fread")
    /\ \E i \in DOMAIN obj[o].calls :
         obj[o].calls[i].call = "fread" /\ obj[o].calls[i].n >= 1

(* C7: on every exit path of FileCopyAllocation construction the file handle
   the constructor opened is closed when the constructor is left, and after
   the object is destroyed no buffer it allocated is live *)
C7_HandleScopedBufferFreed ==
  \A o \in Objs :
    IsFileCopy(o) =>
      /\ obj[o].pc \in {"done", "destroyed", "thrown"} => OwnedFds(o) = {}
      /\ Destroyed(o) => OwnedHeap(o) = {}

\* two construct/destroy cycles, one of a valid copy, one of a failed one
C7_Witness ==
  \E o, p \in Objs :
    /\ IsFileCopy(o) /\ Destroyed(o) /\ ~AnyFailed(obj[o]) /\ Made(obj[o], "fread")
    /\ IsFileCopy(p) /\ Destroyed(p) /\ AnyFailed(obj[p]) /\ Made(obj[p], "fstat")

(* C8: no exception leaves the constructor: when the buffer allocation is
   rejected, construction returns normally with an invalid object and a
   report *)
C8_NoExceptionLeavesConstructor ==
  \A o \in Objs :
    Failed(obj[o], "new") =>
      /\ obj[o].pc \in {"done", "destroyed"}
      /\ ~valid(obj[o])
      /\ obj[o].reports = <<Report(MsgMalloc, obj[o].filename)>>

(* C9: two allocations constructed over the same valid file that are both
   valid have equal bytes() and byte-identical regions, and destroying one
   leaves the other's valid(), bytes(), base(), region and resources
   unchanged *)
C9_SameRegions ==
  \A o, p \in Objs :
    /\ o # p /\ Returned(o) /\ Returned(p)
    /\ obj[o].filename = Model /\ obj[p].filename = Model
    /\ valid(obj[o]) /\ valid(obj[p])
    => bytes(obj[o]) = bytes(obj[p]) /\ Region(o) = Region(p)

\* what a holder of object o can observe of it, and what it owns
View(o) ==
  [valid |-> valid(obj[o]), bytes |-> bytes(obj[o]), base |-> base(obj[o]),
   region |-> Region(o),
   fds |-> OwnedFds(o), maps |-> OwnedMaps(o), heap |-> OwnedHeap(o)]

C9_DestroyFrame ==
  \A o, p \in Objs :
    (o # p /\ Returned(o) /\ Returned(p) /\ Destroyed(p)' /\ Returned(o)')
      => View(o)' = View(o)

C9_TwoOverSameFile == [] C9_SameRegions /\ [][C9_DestroyFrame]_vars

(* C10: after the constructor has returned, base(), bytes() and valid()
   calls change nothing of the object, its descriptor, mapping, buffer or
   region, and a value an accessor returned is the value it returns on every
   later call until destruction *)
C10_AccessorStep ==
  last' # last => UNCHANGED <<content, obj, fds, maps, heap>>

C10_ViewStable ==
  \A o \in Objs : Returned(o) /\ Returned(o)' => View(o)' = View(o) /\ obj[o]' = obj[o]

C10_SameValue ==
  (last.op # "none" /\ Returned(last.obj)) =>
     CASE last.op = "base" -> last.val = base(obj[last.obj])
       [] last.op = "bytes" -> last.val = bytes(obj[last.obj])
       [] last.op = "valid" -> last.val = valid(obj[last.obj])

C10_AccessorsReadOnly ==
  [] C10_SameValue /\ [][C10_AccessorStep /\ C10_ViewStable]_vars

\* an accessor has returned for a valid object while another object exists
C10_Witness ==
  /\ last.op = "bytes" /\ Returned(last.obj) /\ valid(obj[last.obj])
  /\ last.val >= 1
  /\ \E p \in Objs : p # last.obj /\ obj[p].pc # "idle"
\* the value base() has when the object holds no region
Sentinel(s) == IF s.kind = "MMAPAllocation" THEN MAP_FAILED ELSE NULL

(* C11: after a failed construction of either variant, by any failure path,
   base() is the not-mapped sentinel (MMAPAllocation) or null
   (FileCopyAllocation), and valid() is false in exactly those cases *)
C11_NoUsableBaseAfterFailure ==
  \A o \in Objs :
    Returned(o) =>
      /\ AnyFailed(obj[o]) => base(obj[o]) = Sentinel(obj[o])
      /\ ~valid(obj[o]) <=> AnyFailed(obj[o])

\* the calls MMAPAllocation's constructor makes, in program order
MMAPSteps == <<"open", "fstat", "mmap">>

(* C12: MMAPAllocation construction performs open, file-status query, mmap
   in this order, attempts no step after the first failing one, issues
   exactly one report on a failed construction ("Could not open" for open,
   "Mmap of ... failed" for mmap) and none on a successful one *)
C12_OrderedShortCircuit ==
  \A o \in Objs :
    IsMMAP(o) =>
      LET s == obj[o] IN
      /\ Len(s.calls) <= Len(MMAPSteps)
      /\ \A i \in DOMAIN s.calls : s.calls[i].call = MMAPSteps[i]
      /\ \A i \in DOMAIN s.calls : i < Len(s.calls) => s.calls[i].ok
      /\ Returned(o) =>
           IF AnyFailed(s)
           THEN /\ Len(s.reports) = 1
                /\ Failed(s, "open") => s.reports = <<Report(MsgOpen, s.filename)>>
                /\ Failed(s, "mmap") => s.reports = <<Report(MsgMmap, s.filename)>>
           ELSE s.reports = <<>> /\ Len(s.calls) = Len(MMAPSteps)

(* C13: for a constructed MMAPAllocation, valid() holds exactly when the
   mmap call succeeded; and when valid() holds the descriptor is open,
   base() is the start of the object's mapping and bytes() is the size the
   file-status step stored, which is the length of the mapping *)
C13_ValidIffMapped ==
  \A o \in Objs :
    IsMMAP(o) /\ Returned(o) =>
      LET s == obj[o] IN
      /\ valid(s) <=> (Made(s, "mmap") /\ ~Failed(s, "mmap"))
      /\ valid(s) <=> s.mmapped_buffer_ # MAP_FAILED
      /\ valid(s) =>
           /\ s.mmap_fd_ # NoFd
           /\ [fd |-> s.mmap_fd_, owner |-> o] \in fds
           /\ OwnedMaps(o) = {[addr |-> base(s), len |-> bytes(s), owner |-> o]}
           /\ \E i \in DOMAIN s.calls :
                s.calls[i].call = "fstat" /\ s.calls[i].n = bytes(s)

\* valid mappings both after a good and after a failed size query
C13_Witness ==
  \E o, p \in Objs :
    /\ IsMMAP(o) /\ Returned(o) /\ valid(obj[o]) /\ ~AnyFailed(obj[o])
    /\ IsMMAP(p) /\ Returned(p) /\ ~valid(obj[p]) /\ Failed(obj[p], "mmap")
         /\ obj[p].mmap_fd_ # NoFd
(* C14: when open fails in MMAPAllocation construction, the object ends with
   the descriptor at -1, the mapping at MAP_FAILED and bytes() = 0 *)
C14_OpenFailureState ==
  \A o \in Objs :
    IsMMAP(o) /\ Returned(o) /\ Failed(obj[o], "open") =>
      /\ obj[o].mmap_fd_ = NoFd
      /\ obj[o].mmapped_buffer_ = MAP_FAILED
      /\ bytes(obj[o]) = 0

\* open failed on a missing path and on an existing one
C14_Witness ==
  \E o, p \in Objs :
    /\ IsMMAP(o) /\ Returned(o) /\ Failed(obj[o], "open") /\ obj[o].filename = Missing
    /\ IsMMAP(p) /\ Returned(p) /\ Failed(obj[p], "open") /\ obj[p].filename = Model

(* C15: when mmap fails after a successful open, the constructor returns
   with the mapping at MAP_FAILED, valid() false, and the descriptor as open
   returned it: still open, not closed by the constructor *)
C15_MmapFailureState ==
  \A o \in Objs :
    IsMMAP(o) /\ Returned(o) /\ Failed(obj[o], "mmap") =>
      /\ obj[o].mmapped_buffer_ = MAP_FAILED
      /\ ~valid(obj[o])
      /\ obj[o].mmap_fd_ # NoFd
      /\ [fd |-> obj[o].mmap_fd_, owner |-> o] \in fds

C15_MmapStepKeepsFd ==
  \A o \in Objs :
    (IsMMAP(o) /\ obj[o].pc = "mmap" /\ Returned(o)') =>
      /\ obj[o].mmap_fd_' = obj[o].mmap_fd_
      /\ OwnedFds(o)' = OwnedFds(o)

C15_FdLeftOpenOnMmapFailure ==
  [] C15_MmapFailureState /\ [][C15_MmapStepKeepsFd]_vars

\* mmap failed on a non-empty file whose size query succeeded
C15_Witness ==
  \E o \in Objs :
    /\ IsMMAP(o) /\ Returned(o) /\ Failed(obj[o], "mmap") /\ ~Failed(obj[o], "fstat")
    /\ bytes(obj[o]) >= 1
\* the constructor of o has been entered and left
Left(o) == obj[o].pc \in {"done", "destroyed", "thrown"}
\* no underlying call appears twice in the construction's trace
NoRetry(s) ==
  \A i, j \in DOMAIN s.calls : s.calls[i].call = s.calls[j].call => i = j

C16_TwoOutcomes ==
  \A o \in Objs :
    /\ Left(o) => obj[o].pc \in {"done", "destroyed"}
    /\ NoRetry(obj[o])

C16_FailedIsTerminal ==
  \A o \in Objs :
    (Returned(o) /\ ~valid(obj[o]) /\ Returned(o)') => ~valid(obj[o])'

(* C16: construction of either variant ends in exactly one of two states,
   Acquired (valid() true) or Failed (valid() false); each underlying call
   is made at most once per construction, and a Failed object never later
   becomes valid *)
C16_AcquiredOrFailed ==
  [] C16_TwoOutcomes /\ [][C16_FailedIsTerminal]_vars
(* C17: for an invalid allocation of either variant, bytes() is 0 when the
   failure came before the size was determined (open failure, size-query
   failure in FileCopyAllocation); bytes() is nonzero only when the failure
   came after (map failure, short read), and then it is the file's size *)
C17_BytesOfInvalid ==
  \A o \in Objs :
    Returned(o) /\ ~valid(obj[o]) =>
      LET s == obj[o] IN
      /\ (OpenFailed(s) \/ (IsFileCopy(o) /\ Failed(s, "fstat"))) => bytes(s) = 0
      /\ bytes(s) # 0 =>
           /\ Failed(s, "mmap") \/ Failed(s, "fread")
           /\ bytes(s) = Len(content)
\* new char[] returned a buffer for object o
Allocated(s) == Made(s, "new") /\ ~Failed(s, "new")
\* fread returned exactly the determined size
FullRead(s) ==
  \E i \in DOMAIN s.calls :
    s.calls[i].call = "fread" /\ s.calls[i].n = s.buffer_size_bytes_

(* C18: in FileCopyAllocation the buffer is committed to the object
   (copied_buffer_ non-null) only after the read returned exactly the
   determined size; at most one of the constructor's local owner and the
   object owns the buffer, the owner's buffer is live, and the buffer is
   freed exactly once: by the constructor on a failure path or by the
   destructor after success, never twice *)
C18_SingleOwner ==
  \A o \in Objs :
    IsFileCopy(o) =>
      LET s == obj[o] IN
      /\ s.copied_buffer_ # NULL => FullRead(s)
      /\ ~(s.buffer # NULL /\ s.copied_buffer_ # NULL)
      /\ s.frees <= 1
      /\ Cardinality(OwnedHeap(o)) <= 1
      /\ s.buffer # NULL => \E h \in OwnedHeap(o) : h.addr = s.buffer
      /\ (Returned(o) /\ s.copied_buffer_ # NULL) =>
           /\ \E h \in OwnedHeap(o) : h.addr = s.copied_buffer_
           /\ s.frees = 0
      /\ (Allocated(s) /\ Left(o) /\ ~FullRead(s)) => s.frees = 1 /\ OwnedHeap(o) = {}
      /\ (Allocated(s) /\ Destroyed(o)) => s.frees = 1 /\ OwnedHeap(o) = {}
      /\ ~Allocated(s) => s.frees = 0 /\ OwnedHeap(o) = {}

\* one buffer freed by the destructor after success, one by the constructor
\* after a short read
C18_Witness ==
  \E o, p \in Objs :
    /\ IsFileCopy(o) /\ Destroyed(o) /\ FullRead(obj[o]) /\ obj[o].frees = 1
         /\ obj[o].buffer_size_bytes_ >= 1
    /\ IsFileCopy(p) /\ Returned(p) /\ Failed(obj[p], "fread") /\ obj[p].frees = 1
====
